---- MODULE Spec2Model ----
(***************************************************************************)
(* Session-recording pipeline of the mid-century extension.                *)
(*                                                                         *)
(* Two execution contexts are modelled, in several specifications that     *)
(* share one list of variables:                                            *)
(*   SpecCoord - the stateful Session Coordinator of                       *)
(*               chrome-extension/src/background/index.ts (lines 1-171):   *)
(*               sessionState, offscreenReady, offscreenQueue, the         *)
(*               start/stop/action handlers and flushOffscreenQueue;       *)
(*   SpecHost  - the Recorder Host of pages/offscreen/src/index.ts, its    *)
(*               capture lifecycle: startRecording, stopRecording,         *)
(*               trackWrite, waitForPendingWrites, the encoder's segments  *)
(*               and the message listener;                                 *)
(*   SpecHostActions - the same Recorder Host with handleAction: action    *)
(*               messages arriving during sessions started and stopped by  *)
(*               message;                                                  *)
(*   FairSpecHost - SpecHost with the progress the event loop and          *)
(*               IndexedDB give: settled writes and resumed awaits;        *)
(*   SpecStore - the object stores of db.ts and enforceLimits;             *)
(*   SpecExport - buildSessionArchive of offscreen/src/export.ts applied   *)
(*               to the bundles loadSessionBundle can return;              *)
(*   SpecStoreSessions - SpecStore with the records of an earlier and of  *)
(*               the active session told apart;                            *)
(*   SpecFwd   - the forwarding coordinator (unnamed/part_001) relaying    *)
(*               cua/status-request to the Recorder Host;                  *)
(*   SpecCoordRestart - SpecCoord with the coordinator's service worker    *)
(*               destroyed and started again, and its cua/status-request   *)
(*               replies;                                                  *)
(*   FairSpecCoordRestart - SpecCoordRestart with the progress of the     *)
(*               coordinator's awaits;                                     *)
(*   SpecHostFaults - SpecHost with rejected artifact writes and rejected   *)
(*               eviction runs;                                            *)
(*   SpecStream - stream requests of the popup, the stream responses of    *)
(*               the forwarding coordinator and what the Recorder Host     *)
(*               makes of them.                                            *)
(* An async function is a process whose pc names the await it is parked    *)
(* at; everything between two awaits is one atomic step (one JavaScript    *)
(* task).                                                                  *)
(***************************************************************************)
EXTENDS Integers, Sequences, FiniteSets, TLC

VARIABLES
    \* ---- Session Coordinator (background/index.ts) ----
    bgSessionState,   \* let sessionState (line 8)
    offscreenReady,   \* let offscreenReady (line 9)
    offscreenQueue,   \* const offscreenQueue (line 10)
    calls,            \* handler invocations parked at an await
    nCalls,           \* number of handler invocations so far
    lastReturn,       \* the response most recently sent by a start/stop handler
    flights,          \* running flushOffscreenQueue loops, each awaiting one send
    submitted,        \* history: messages handed to sendToOffscreen, in order
    delivered,        \* history: messages received by the Recorder Host, in order
    failures,         \* number of rejected sends so far
    readies,          \* number of cua/offscreen-ready signals so far
    \* ---- shared platform services ----
    clock,            \* Date.now()
    uuid,             \* crypto.randomUUID(): next unused id
    \* ---- Recorder Host (offscreen/index.ts) ----
    sessionState,         \* let sessionState (line 23)
    mediaRecorder,        \* let mediaRecorder (line 24)
    stream,               \* let stream (line 25)
    baseStream,           \* let baseStream (line 26)
    canvasReady,          \* videoEl and canvasEl exist (lines 27-28)
    pendingWrites,        \* const pendingWrites (line 29)
    processedActionIds,   \* let processedActionIds (line 30)
    stopping,             \* let stopping (line 31)
    streams,              \* acquired MediaStreams: are their tracks live
    recorders,            \* created MediaRecorders: state and session
    writes,               \* persistence work handed to trackWrite, not yet settled
    starts,               \* startRecording invocations parked at an await
    stops,                \* stopRecording invocations parked at an await
    db,                   \* IndexedDB object stores
    exported,             \* history: exportSessionArchive invocations and how they ended
    hostLog,              \* history: the last cua/action or track-ended event handled
    counts,               \* events so far, by kind
    \* ---- Object stores and their limits (db.ts) ----
    stores,               \* records of each object store: key and createdAt
    deleted,              \* history: records trimOldest has deleted, by store
    runs,                 \* enforceLimits invocations parked at an await
    nRuns,                \* number of enforceLimits invocations so far
    runLog,               \* history: the enforceLimits run that returned last
    \* ---- Session archive (offscreen/src/export.ts) ----
    bundle,               \* what loadSessionBundle returned
    archive,              \* what buildSessionArchive made of it
    \* ---- Forwarding coordinator (unnamed/part_001) ----
    fwdHost,              \* the Recorder Host's context: does it exist, its status
    listeners,            \* is another extension page with an onMessage listener open
    queries,              \* forwarded cua/status-request messages not yet answered
    nQueries,             \* number of cua/status-request messages so far
    answers,              \* history: the answer relayed last
    \* ---- Session Coordinator: restarts and status replies ----
    recreated,            \* number of times the service worker was started again
    bgReply,              \* history: the last reply to cua/status-request
    \* ---- Stream requests (part_002, part_001, offscreen/index.ts) ----
    streamRequests,       \* cua/stream-request messages not yet handled
    nRequests,            \* number of cua/stream-request messages so far
    streamResponses,      \* broadcast cua/stream-response messages not yet received
    srHost,               \* the host's sessionState and the request that made it
    \* ---- Recorder Host: persistence failures ----
    faultLog,             \* history: rejected writes and eviction runs so far
    activeFrom            \* records created before the active session began

coordVars == <<bgSessionState, offscreenReady, offscreenQueue, calls, nCalls,
               lastReturn, flights,
               submitted, delivered, failures, readies>>
sharedVars == <<clock, uuid>>
hostVars == <<sessionState, mediaRecorder, stream, baseStream, canvasReady,
              pendingWrites, processedActionIds, stopping, streams, recorders,
              writes, starts, stops, db, exported, hostLog, counts>>
storeVars == <<stores, deleted, runs, nRuns, runLog, activeFrom>>
exportVars == <<bundle, archive>>
fwdVars == <<fwdHost, listeners, queries, nQueries, answers>>
restartVars == <<recreated, bgReply>>
streamVars == <<streamRequests, nRequests, streamResponses, srHost>>
faultVars == <<faultLog>>
extraVars == <<restartVars, streamVars, faultVars>>
restVars == <<storeVars, exportVars, fwdVars, extraVars>>
vars == <<coordVars, sharedVars, hostVars, restVars>>

\* ------------------------------------------------------------------------
\* Bounds
\* ------------------------------------------------------------------------
MaxCalls == 3       \* coordinator handler invocations
MaxFail == 1        \* rejected chrome.runtime.sendMessage calls
MaxStarts == 2      \* startRecording invocations and stream-response errors
MaxStops == 2       \* stopRecording invocations that get past the guards
MaxActions == 2     \* cua/action messages the host accepts
MaxChunks == 1      \* timeslice dataavailable events
MaxUnsettled == 4   \* tracked writes in flight at once
MaxKept == 1        \* the smallest configured maximum of an object store
MaxPuts == 4        \* records put into the object stores
MaxRuns == 2        \* enforceLimits invocations

\* The Recorder Host announces itself twice each time its document loads:
\* at script start (offscreen/index.ts line 310) and again once IndexedDB has
\* opened or failed to open (lines 318 and 323).
ReadySignals == 2

None == 0           \* undefined / null

Sources == {"tab"}

\* SessionStatus (packages/shared/lib/types/cua.ts line 11)
SessionStatus == {"idle", "consenting", "recording", "paused", "stopping", "ended"}

\* Date.now() in a handler.  Handlers run as separate tasks; every read sees a
\* later time than the previous one, so that any re-stamping of a field shows.
Now == {clock + 1}

\* ------------------------------------------------------------------------
\* Session Coordinator
\* ------------------------------------------------------------------------

\* let sessionState: SessionState = { status: 'idle' }
BgIdle ==
    [status |-> "idle", sessionId |-> None, startedAt |-> None,
     endedAt |-> None, reason |-> "", source |-> ""]

\* setSessionState: sessionState = { ...sessionState, ...updates }
setSessionState(s, updates) ==
    [k \in DOMAIN s |-> IF k \in DOMAIN updates THEN updates[k] ELSE s[k]]

\* offscreenQueue.push(message) written with the wrong end of the array
QueuePushFront(q, m) == <<m>> \o q

\* offscreenQueue.push(message)
QueuePush(q, m) == Append(q, m)

\* if (!offscreenReady) return;  -- forgotten
FlushAllowedAlways == TRUE

\* flushOffscreenQueue: if (!offscreenReady) return;
FlushAllowed == offscreenReady

\* the catch handler of a failed send forgets to put the message back
RequeueDropped(q, m) == q

\* offscreenQueue.unshift(msg) in the catch handler of a failed send
Requeue(q, m) == <<m>> \o q

\* One pass of `while (offscreenQueue.length)`: shift the head and send it.
\* The runtime channel is FIFO, so a send that will be acknowledged reaches
\* the host in the order of the sendMessage calls; a send that will be
\* rejected reaches nobody.  Sets offscreenQueue', flights', delivered',
\* failures'.  finished is TRUE when the loop ends instead.
FlushPass(q, owner, fl, finished) ==
    IF q = <<>>
    THEN /\ finished
         /\ offscreenQueue' = q
         /\ flights' = fl
         /\ UNCHANGED <<delivered, failures>>
    ELSE /\ ~finished
         /\ \E ok \in BOOLEAN :
              /\ ~ok => failures < MaxFail
              /\ offscreenQueue' = Tail(q)
              /\ flights' = fl \cup {[msg |-> Head(q), ok |-> ok, owner |-> owner]}
              /\ delivered' = IF ok THEN Append(delivered, Head(q)) ELSE delivered
              /\ failures' = IF ok THEN failures ELSE failures + 1

\* sendToOffscreen(message), called by handler invocation i.
\* waits is TRUE when the caller is left awaiting a flush.
sendToOffscreen(i, type, waits) ==
    LET m == [id |-> Len(submitted) + 1, type |-> type]
        q == QueuePush(offscreenQueue, m)
    IN  /\ submitted' = Append(submitted, [msg |-> m, atStatus |-> bgSessionState.status])
        /\ IF FlushAllowed
           THEN FlushPass(q, i, flights, ~waits)
           ELSE /\ ~waits
                /\ offscreenQueue' = q
                /\ UNCHANGED <<flights, delivered, failures>>

\* handleStartRequest line 74 with the session id test inverted
AlreadyRecordingNoId(s) == s.status = "recording" /\ s.sessionId = None

\* handleStartRequest line 74
AlreadyRecording(s) == s.status = "recording" /\ s.sessionId # None

\* handleStopRequest line 94 testing the status instead of the id
NoSessionByStatus(s) == s.status = "ended"

\* handleStopRequest line 94: if (!sessionState.sessionId)
NoSession(s) == s.sessionId = None

\* A handler invocation parked at an await: its position and the snapshot it
\* will resolve with (nextState)
Call(id, kind, pc, next) == [id |-> id, kind |-> kind, pc |-> pc, next |-> next]

\* sendResponse({ type: 'cua/status', payload: session }), lines 141-148
Response(kind, noop, session) == [kind |-> kind, noop |-> noop, session |-> session]

\* handleStartRequest, lines 74-80: up to `await getActiveTabId()`
handleStartRequest(src) ==
    /\ nCalls < MaxCalls
    /\ nCalls' = nCalls + 1
    /\ IF AlreadyRecording(bgSessionState)
       THEN /\ lastReturn' = Response("start", TRUE, bgSessionState)
            /\ UNCHANGED <<bgSessionState, offscreenReady, offscreenQueue, calls, flights,
                           submitted, delivered, failures, readies, clock, uuid>>
       ELSE \E now \in Now :
            LET fresh == bgSessionState.sessionId = None
                sessionId == IF fresh THEN uuid ELSE bgSessionState.sessionId
                nextState == [sessionId |-> sessionId, status |-> "recording",
                              startedAt |-> now, source |-> src]
            IN  /\ clock' = now
                /\ uuid' = IF fresh THEN uuid + 1 ELSE uuid
                /\ calls' = calls \cup {Call(nCalls + 1, "start", "tab", nextState)}
                /\ UNCHANGED <<bgSessionState, offscreenReady, offscreenQueue, flights,
                               submitted, delivered, failures, readies, lastReturn>>
    /\ UNCHANGED <<hostVars, restVars>>

\* handleStartRequest, lines 81-88: getActiveTabId resolved, up to
\* `await ensureOffscreenDocument()`
StartGotTab(c) ==
    /\ c \in calls
    /\ c.kind = "start" /\ c.pc = "tab"
    /\ bgSessionState' = setSessionState(bgSessionState, c.next)
    /\ calls' = (calls \ {c}) \cup {[c EXCEPT !.pc = "ensure"]}
    /\ UNCHANGED <<offscreenReady, offscreenQueue, flights, submitted, delivered,
                   failures, readies, nCalls, lastReturn, clock, uuid>>
    /\ UNCHANGED <<hostVars, restVars>>

\* handleStartRequest, lines 89-90: sendToOffscreen(cua/offscreen/start)
StartSend(c) ==
    /\ c \in calls
    /\ c.kind = "start" /\ c.pc = "ensure"
    /\ \E waits \in BOOLEAN :
         /\ sendToOffscreen(c.id, "cua/offscreen/start", waits)
         /\ calls' = IF waits THEN (calls \ {c}) \cup {[c EXCEPT !.pc = "flush"]}
                              ELSE calls \ {c}
         /\ lastReturn' = IF waits THEN lastReturn ELSE Response("start", FALSE, c.next)
    /\ UNCHANGED <<bgSessionState, offscreenReady, readies, nCalls, clock, uuid>>
    /\ UNCHANGED <<hostVars, restVars>>

\* handleStopRequest, lines 93-99
handleStopRequest(reason) ==
    /\ nCalls < MaxCalls
    /\ nCalls' = nCalls + 1
    /\ IF NoSession(bgSessionState)
       THEN /\ lastReturn' = Response("stop", TRUE, bgSessionState)
            /\ UNCHANGED <<bgSessionState, offscreenReady, offscreenQueue, calls, flights,
                           submitted, delivered, failures, readies, clock, uuid>>
       ELSE \E now \in Now, waits \in BOOLEAN :
            LET nextState == setSessionState(bgSessionState,
                                 [status |-> "ended", reason |-> reason, endedAt |-> now])
            IN  /\ clock' = now
                /\ bgSessionState' = nextState
                /\ sendToOffscreen(nCalls + 1, "cua/offscreen/stop", waits)
                /\ calls' = IF waits
                            THEN calls \cup {Call(nCalls + 1, "stop", "flush", nextState)}
                            ELSE calls
                /\ lastReturn' = IF waits THEN lastReturn
                                 ELSE Response("stop", FALSE, nextState)
                /\ UNCHANGED <<offscreenReady, readies, uuid>>
    /\ UNCHANGED <<hostVars, restVars>>

\* handleActionEvent, lines 101-111.  The listener runs it with `void` and
\* sends no response, so nothing waits for its flush (owner 0).
handleActionEvent ==
    /\ nCalls < MaxCalls
    /\ nCalls' = nCalls + 1
    /\ \E waits \in BOOLEAN : sendToOffscreen(0, "cua/offscreen/action", waits)
    /\ UNCHANGED <<bgSessionState, offscreenReady, readies, calls, lastReturn,
                   clock, uuid>>
    /\ UNCHANGED <<hostVars, restVars>>

\* onMessage case 'cua/offscreen-ready', lines 156-160
OnOffscreenReady ==
    /\ readies < ReadySignals
    /\ readies' = readies + 1
    /\ offscreenReady' = TRUE
    /\ \E finished \in BOOLEAN : FlushPass(offscreenQueue, 0, flights, finished)
    /\ UNCHANGED <<bgSessionState, calls, submitted, nCalls, lastReturn, clock, uuid>>
    /\ UNCHANGED <<hostVars, restVars>>

\* flushOffscreenQueue, lines 44-48: the awaited send settles; on rejection the
\* catch handler puts the message back, then the loop goes round.  When the
\* loop ends, the handler awaiting it returns its snapshot.
FlushSettle(f) ==
    /\ f \in flights
    /\ LET q == IF f.ok THEN offscreenQueue ELSE Requeue(offscreenQueue, f.msg)
           owners == {c \in calls : c.id = f.owner}
       IN  \E finished \in BOOLEAN :
             /\ FlushPass(q, f.owner, flights \ {f}, finished)
             /\ calls' = IF finished THEN calls \ owners ELSE calls
             /\ lastReturn' =
                  IF finished /\ owners # {}
                  THEN LET c == CHOOSE c \in owners : TRUE
                       IN  Response(c.kind, FALSE, c.next)
                  ELSE lastReturn
    /\ UNCHANGED <<bgSessionState, offscreenReady, submitted, readies, nCalls, clock, uuid>>
    /\ UNCHANGED <<hostVars, restVars>>

\* ------------------------------------------------------------------------
\* Session Coordinator: restart of its service worker, status replies
\* ------------------------------------------------------------------------

MaxRecreations == 1

\* The state of the host the coordinator's messages are for (part_005):
\* handleStart (lines 14-38), handleStop (lines 40-55) and the other cases
\* of its listener applied to the messages it has received.  The host keeps
\* the session id it allocated at its first start.
RECURSIVE HostAfter(_)
HostAfter(msgs) ==
    IF msgs = <<>>
    THEN [status |-> "idle", hasId |-> FALSE]
    ELSE LET h == HostAfter(SubSeq(msgs, 1, Len(msgs) - 1))
             m == msgs[Len(msgs)]
         IN  CASE m.type = "cua/offscreen/start" -> [status |-> "recording", hasId |-> TRUE]
               [] m.type = "cua/offscreen/stop" ->
                     IF h.hasId THEN [h EXCEPT !.status = "ended"] ELSE h
               [] OTHER -> h

\* The service worker is terminated and later started again: the module is
\* evaluated afresh (lines 8-10) and the handlers parked at an await are gone.
\* What was handed to chrome.runtime.sendMessage has reached the host; the
\* new context has answered nobody yet.
CoordRecreated ==
    /\ recreated < MaxRecreations
    /\ recreated' = recreated + 1
    /\ bgSessionState' = BgIdle
    /\ offscreenReady' = FALSE
    /\ offscreenQueue' = <<>>
    /\ calls' = {}
    /\ flights' = {}
    /\ lastReturn' = Response("none", FALSE, BgIdle)
    /\ UNCHANGED <<submitted, delivered, failures, readies, nCalls, bgReply>>
    /\ UNCHANGED <<sharedVars, hostVars, storeVars, exportVars, fwdVars, streamVars,
                   faultVars>>

\* onMessage case 'cua/status-request', lines 150-152
StatusRequest ==
    /\ bgReply' = [asked |-> TRUE, status |-> bgSessionState.status,
                   sessionId |-> bgSessionState.sessionId,
                   host |-> HostAfter(delivered), recreated |-> recreated > 0]
    /\ UNCHANGED recreated
    /\ UNCHANGED <<coordVars, sharedVars, hostVars, storeVars, exportVars, fwdVars,
                   streamVars, faultVars>>

\* ------------------------------------------------------------------------
\* Stream requests and responses
\* ------------------------------------------------------------------------

MaxRequests == 2

\* How handleStreamRequest (part_001 lines 37-84) can end
StreamOutcomes == {"unavailable", "no-tab", "capture-error", "cancelled", "stream"}

\* part_001 lines 43-46, 54-57, 72, 77, 81: the cua/stream-response built for
\* the request
StreamResponse(requestId, outcome) ==
    [requestId |-> requestId, streamId |-> (outcome = "stream"),
     error |-> IF outcome = "stream" THEN "" ELSE outcome]

\* Popup.startTracking, part_002 lines 37-41: a cua/stream-request with a
\* new requestId
StreamRequested ==
    /\ nRequests < MaxRequests
    /\ nRequests' = nRequests + 1
    /\ streamRequests' = streamRequests \cup {nRequests + 1}
    /\ UNCHANGED <<streamResponses, srHost>>
    /\ UNCHANGED <<coordVars, sharedVars, hostVars, storeVars, exportVars, fwdVars,
                   restartVars, faultVars>>

\* handleStreamRequest, part_001 lines 37-84: the response is broadcast with
\* chrome.runtime.sendMessage
HandleStreamRequest(q, outcome) ==
    /\ q \in streamRequests
    /\ outcome \in StreamOutcomes
    /\ streamRequests' = streamRequests \ {q}
    /\ streamResponses' = streamResponses \cup {StreamResponse(q, outcome)}
    /\ UNCHANGED <<nRequests, srHost>>
    /\ UNCHANGED <<coordVars, sharedVars, hostVars, storeVars, exportVars, fwdVars,
                   restartVars, faultVars>>

\* The host's listener, offscreen/index.ts lines 285-296: with a streamId
\* startRecording is called, which (when nothing fails) leaves the status at
\* recording; with an error sessionState is replaced by idle.  by is the
\* request whose response sessionState comes from.
HostStreamResponse(m) ==
    /\ m \in streamResponses
    /\ streamResponses' = streamResponses \ {m}
    /\ srHost' = IF m.streamId
                 THEN [status |-> "recording", reason |-> "", by |-> m.requestId]
                 ELSE IF m.error # ""
                      THEN [status |-> "idle", reason |-> m.error, by |-> m.requestId]
                      ELSE srHost
    /\ UNCHANGED <<streamRequests, nRequests>>
    /\ UNCHANGED <<coordVars, sharedVars, hostVars, storeVars, exportVars, fwdVars,
                   restartVars, faultVars>>

\* ------------------------------------------------------------------------
\* Recorder Host (pages/offscreen/src/index.ts)
\* ------------------------------------------------------------------------

ActionIds == {"a1"}

\* { status: 'idle' } (line 23) and { status: 'idle', reason } (line 293)
HostIdle(reason) == [status |-> "idle", sessionId |-> None, reason |-> reason]

\* ids of the writes that have not settled
Unsettled == {w.id : w \in writes}

\* Identity of the n-th promise created now: the n-th number that names no
\* unsettled write (a settled promise is referred to by nothing)
FreshId(n) ==
    LET free == (1..(Cardinality(writes) + n)) \ Unsettled
    IN  CHOOSE i \in free : Cardinality({j \in free : j < i}) = n - 1

\* trackWrite, lines 42-54: the work is in flight and its promise is pushed
\* onto pendingWrites
Write(n, kind, sessionId, actionId) ==
    [id |-> FreshId(n), kind |-> kind, issuedFor |-> sessionId,
     actionId |-> actionId]

\* A record added to an object store under a fresh key (crypto.randomUUID):
\* n tells it from the records that agree with it in every other field
Stored(store, rec) ==
    store \cup {[r \in {"rec", "n"} |->
                   IF r = "rec" THEN rec
                   ELSE 1 + Cardinality({x \in store : x.rec = rec})]}

\* waitForPendingWrites without `pendingWrites.length = 0`
WaitLeavesPending(pw) == pw

\* waitForPendingWrites, lines 57-58: what is left in pendingWrites after the
\* caller has taken its copy
WaitClearsPending(pw) == {}

\* Promise.allSettled(pending), line 60: has everything in the copy settled
\* (awaiting keeps the ones that have not)
Drained(awaiting) == awaiting = {}

\* t.stop() on every track of stream s (lines 102, 203-204)
StopTracks(ss, s) ==
    IF s = None THEN ss ELSE [ss EXCEPT ![s].live = FALSE]

\* recorder.stop(): the recorder goes inactive at once; its last
\* dataavailable and its stop event are still to come ("flushing")
StopRecorder(rs, r) ==
    IF r # None /\ rs[r].state = "recording"
    THEN [rs EXCEPT ![r].state = "flushing"]
    ELSE rs

\* recorder.state !== 'inactive' (lines 195, 199) with the test forgotten
RecorderActiveAlways(r) == r # None

\* recorder && recorder.state !== 'inactive' (lines 195, 199)
RecorderActive(r) == r # None /\ recorders[r].state = "recording"

\* handleAction line 252 without the status test
ActionAcceptedAnyStatus(s) == s.sessionId # None

\* handleAction line 252: does the host take the action
ActionAccepted(s) == s.status = "recording" /\ s.sessionId # None

\* startRecording lines 100-109 after `await waitForPendingWrites()`, then 111-127:
\* tear down, reset processedActionIds, call getUserMedia
Teardown(p) ==
    /\ streams' = StopTracks(streams, stream)
    /\ recorders' = StopRecorder(recorders, mediaRecorder)
    /\ mediaRecorder' = None
    /\ stream' = None
    /\ baseStream' = None
    /\ processedActionIds' = {}

\* startRecording, lines 96-101: invoked by cua/recorder-start or by a
\* cua/stream-response carrying a streamId
startRecording ==
    /\ counts.starts < MaxStarts
    /\ counts' = [counts EXCEPT !.starts = @ + 1]
    /\ LET p == [id |-> counts.starts + 1, pc |-> "gum", awaiting |-> {},
                 sessionId |-> None]
       IN  IF mediaRecorder # None \/ stream # None
           THEN IF pendingWrites = {}
                THEN /\ Teardown(p)
                     /\ starts' = starts \cup {p}
                     /\ UNCHANGED pendingWrites
                ELSE /\ starts' = starts \cup
                                    {[p EXCEPT !.pc = "teardown", !.awaiting = pendingWrites]}
                     /\ pendingWrites' = WaitClearsPending(pendingWrites)
                     /\ UNCHANGED <<streams, recorders, mediaRecorder, stream, baseStream,
                                    processedActionIds>>
           ELSE /\ processedActionIds' = {}
                /\ starts' = starts \cup {p}
                /\ UNCHANGED <<streams, recorders, mediaRecorder, stream, baseStream,
                               pendingWrites>>
    /\ UNCHANGED <<sessionState, canvasReady, stopping, writes, stops, db, exported,
                   hostLog>>
    /\ UNCHANGED <<coordVars, sharedVars, restVars>>

\* startRecording, lines 101-127: the old session's writes have settled
StartTornDown(p) ==
    /\ p \in starts /\ p.pc = "teardown"
    /\ Drained(p.awaiting)
    /\ Teardown(p)
    /\ starts' = (starts \ {p}) \cup {[p EXCEPT !.pc = "gum", !.awaiting = {}]}
    /\ UNCHANGED <<sessionState, canvasReady, pendingWrites, stopping, writes, stops, db,
                   exported, hostLog, counts>>
    /\ UNCHANGED <<coordVars, sharedVars, restVars>>

\* startRecording, lines 127-142: getUserMedia settles.  On success the new
\* stream is stored, its tracks get their onended handler and
\* ensureVideoCanvas runs up to `await videoEl.play()`.
StartGotStream(p, ok) ==
    /\ p \in starts /\ p.pc = "gum"
    /\ IF ok
       THEN /\ streams' = Append(streams, [live |-> TRUE])
            /\ baseStream' = Len(streams) + 1
            /\ stream' = Len(streams) + 1
            /\ canvasReady' = TRUE
            /\ starts' = (starts \ {p}) \cup {[p EXCEPT !.pc = "play"]}
       ELSE /\ starts' = starts \ {p}
            /\ UNCHANGED <<streams, baseStream, stream, canvasReady>>
    /\ UNCHANGED <<sessionState, mediaRecorder, pendingWrites, processedActionIds,
                   stopping, recorders, writes, stops, db, exported, hostLog, counts>>
    /\ UNCHANGED <<coordVars, sharedVars, restVars>>

\* store.put(record) in the actions store (db.js saveAction): upsert by
\* actionId
PutAction(actions, rec) ==
    {r \in actions : r.actionId # rec.actionId} \cup {rec}

\* store.put(record) in the sessions store (db.js saveSession): upsert by
\* sessionId
PutSession(sessions, rec) ==
    {r \in sessions : r.sessionId # rec.sessionId} \cup {rec}

\* startRecording, lines 144-152: new session id, status recording,
\* saveSession called; the put takes its place among the puts on the
\* sessions store in the order of the calls
StartSession(p) ==
    /\ p \in starts /\ p.pc = "play"
    /\ sessionState' = [status |-> "recording", sessionId |-> uuid, reason |-> ""]
    /\ uuid' = uuid + 1
    /\ db' = [db EXCEPT !.sessions = PutSession(@, sessionState')]
    /\ starts' = (starts \ {p}) \cup {[p EXCEPT !.pc = "saveSession", !.sessionId = uuid]}
    /\ UNCHANGED <<mediaRecorder, stream, baseStream, canvasReady, pendingWrites,
                   processedActionIds, stopping, streams, recorders, writes, stops,
                   exported, hostLog, counts>>
    /\ UNCHANGED <<coordVars, clock, restVars>>

\* startRecording, lines 152-179: saveSession and enforceLimits have
\* returned; the recorder is created on whatever `stream` holds now
\* (new MediaRecorder(null) throws), started and stored
StartRecorder(p) ==
    /\ p \in starts /\ p.pc = "saveSession"
    /\ starts' = starts \ {p}
    /\ IF stream = None
       THEN UNCHANGED <<recorders, mediaRecorder>>
       ELSE /\ recorders' = Append(recorders, [state |-> "recording",
                                               sessionId |-> p.sessionId,
                                               stream |-> stream, emitted |-> 0])
            /\ mediaRecorder' = Len(recorders) + 1
    /\ UNCHANGED <<sessionState, stream, baseStream, canvasReady, pendingWrites,
                   processedActionIds, stopping, streams, writes, stops, db, exported,
                   hostLog, counts>>
    /\ UNCHANGED <<coordVars, sharedVars, restVars>>

\* onMessage case 'cua/stream-response' with payload.error, lines 291-294
StreamResponseError ==
    /\ counts.starts < MaxStarts
    /\ counts' = [counts EXCEPT !.starts = @ + 1]
    /\ sessionState' = HostIdle("error")
    /\ UNCHANGED <<mediaRecorder, stream, baseStream, canvasReady, pendingWrites,
                   processedActionIds, stopping, streams, recorders, writes, starts,
                   stops, db, exported, hostLog>>
    /\ UNCHANGED <<coordVars, sharedVars, restVars>>

\* stopRecording without `if (stopping) return;` (line 183)
StopIgnoredWithoutFlag ==
    sessionState.status # "recording" /\ mediaRecorder = None /\ stream = None

\* stopRecording lines 183-184: the call returns at once
StopIgnored ==
    \/ stopping
    \/ (sessionState.status # "recording" /\ mediaRecorder = None /\ stream = None)

\* stopRecording, lines 182-210, up to the first await that has to wait.
\* ss is the streams as the caller leaves them.
stopRecording(reason, ss) ==
    IF StopIgnored
    THEN /\ streams' = ss
         /\ UNCHANGED <<sessionState, mediaRecorder, stream, baseStream, pendingWrites,
                        stopping, recorders, stops, counts>>
    ELSE LET recorder == mediaRecorder
             waits == RecorderActive(recorder)
             p == [id |-> counts.stops + 1, pc |-> "waitStop",
                   currentSessionId |-> sessionState.sessionId,
                   recorder |-> recorder, reason |-> reason, awaiting |-> {}]
         IN  /\ counts.stops < MaxStops
             /\ counts' = [counts EXCEPT !.stops = @ + 1]
             /\ stopping' = TRUE
             /\ sessionState' = IF sessionState.status = "recording"
                                THEN [sessionState EXCEPT !.status = "stopping",
                                                          !.reason = reason]
                                ELSE sessionState
             /\ recorders' = IF waits THEN StopRecorder(recorders, recorder) ELSE recorders
             /\ streams' = StopTracks(StopTracks(ss, stream), baseStream)
             /\ stream' = None
             /\ baseStream' = None
             /\ mediaRecorder' = None
             /\ IF waits
                THEN /\ stops' = stops \cup {p}
                     /\ UNCHANGED pendingWrites
                ELSE /\ stops' = stops \cup
                                   {[p EXCEPT !.pc = "drain", !.awaiting = pendingWrites]}
                     /\ pendingWrites' = WaitClearsPending(pendingWrites)

\* onMessage case 'cua/recorder-stop', lines 280-284
RecorderStop ==
    /\ stopRecording("user", streams)
    /\ UNCHANGED <<canvasReady, processedActionIds, writes, starts, db, exported,
                   hostLog>>
    /\ UNCHANGED <<coordVars, sharedVars, restVars>>

\* track.onended, lines 135-140: the source is revoked or closed from outside
TrackEnded(s) ==
    /\ s \in DOMAIN streams /\ streams[s].live
    /\ stopRecording("stream-ended", [streams EXCEPT ![s].live = FALSE])
    /\ hostLog' = [op |-> IF s = stream THEN "track-ended" ELSE "stale-track-ended",
                   status |-> sessionState.status,
                   sessionId |-> sessionState.sessionId, accepted |-> ~StopIgnored]
    /\ UNCHANGED <<canvasReady, processedActionIds, writes, starts, db, exported>>
    /\ UNCHANGED <<coordVars, sharedVars, restVars>>

\* recorder.ondataavailable with every segment kept
ChunkKeptAlways(hasData) == TRUE

\* recorder.ondataavailable line 160: a segment without data is dropped
ChunkKept(hasData) == hasData

\* Date.now() values a chunk record can get as createdAt: a timeslice
\* segment comes seconds after the one before it, the last segment of a
\* stopped encoder can come within the same millisecond
ChunkTimes(final) ==
    LET last == IF db.videoChunks = {} THEN 0
                ELSE CHOOSE t \in {c.createdAt : c \in db.videoChunks} :
                        \A c \in db.videoChunks : c.createdAt <= t
    IN  IF final /\ last > 0 THEN {last, last + 1} ELSE {last + 1}

\* recorder.ondataavailable, lines 159-173: a segment with data becomes a
\* tracked chunk write for the session the recorder was created in.
\* saveVideoChunk is called at once, so the puts on the videoChunks store
\* are made in the order of the events; event.timecode grows with every
\* segment of a recorder.  rs is the recorders as the caller leaves them;
\* resumed tells that a stopRecording goes on to waitForPendingWrites in the
\* same task.
OnDataAvailable(r, hasData, final, rs, resumed) ==
    IF ChunkKept(hasData)
    THEN LET w == Write(1, "chunk", recorders[r].sessionId, "")
         IN  /\ Cardinality(writes) < MaxUnsettled
             /\ writes' = writes \cup {w}
             /\ pendingWrites' = IF resumed
                                 THEN WaitClearsPending(pendingWrites \cup {w.id})
                                 ELSE pendingWrites \cup {w.id}
             /\ recorders' = [rs EXCEPT ![r].emitted = @ + 1]
             /\ \E t \in ChunkTimes(final) :
                   db' = [db EXCEPT !.videoChunks = @ \cup
                            {[sessionId |-> recorders[r].sessionId,
                              timecode |-> recorders[r].emitted + 1,
                              createdAt |-> t]}]
    ELSE /\ recorders' = rs
         /\ pendingWrites' = IF resumed THEN WaitClearsPending(pendingWrites)
                             ELSE pendingWrites
         /\ UNCHANGED <<writes, db>>

\* the encoder emits a segment when a timeslice has elapsed (line 176)
TimesliceElapsed(r, hasData) ==
    /\ counts.chunks < MaxChunks
    /\ r \in DOMAIN recorders /\ recorders[r].state = "recording"
    /\ counts' = [counts EXCEPT !.chunks = @ + 1]
    /\ OnDataAvailable(r, hasData, FALSE, recorders, FALSE)
    /\ UNCHANGED <<sessionState, mediaRecorder, stream, baseStream, canvasReady,
                   processedActionIds, stopping, streams, starts, stops,
                   exported, hostLog>>
    /\ UNCHANGED <<coordVars, sharedVars, restVars>>

\* the stopped encoder flushes: its last dataavailable, then its stop event,
\* which resolves waitForStop (line 196); stopRecording goes on to
\* waitForPendingWrites (lines 209-210)
RecorderFlushed(r, hasData) ==
    /\ r \in DOMAIN recorders /\ recorders[r].state = "flushing"
    /\ LET w == Write(1, "chunk", recorders[r].sessionId, "")
           pw == IF ChunkKept(hasData) THEN pendingWrites \cup {w.id} ELSE pendingWrites
           waiting == {p \in stops : p.pc = "waitStop" /\ p.recorder = r}
       IN  /\ OnDataAvailable(r, hasData, TRUE,
                              [recorders EXCEPT ![r].state = "inactive"],
                              waiting # {})
           /\ stops' = (stops \ waiting) \cup
                         {[p EXCEPT !.pc = "drain", !.awaiting = pw] : p \in waiting}
    /\ UNCHANGED <<sessionState, mediaRecorder, stream, baseStream, canvasReady,
                   processedActionIds, stopping, streams, starts, exported, hostLog,
                   counts>>
    /\ UNCHANGED <<coordVars, sharedVars, restVars>>

\* stopRecording, lines 210-213: the copied writes have settled; the session
\* is marked ended and saveSession is called with it.  The put takes its
\* place among the puts on the sessions store in the order of the calls;
\* without a sessionId the record has no key and the put is rejected.
StopDrained(p) ==
    /\ p \in stops /\ p.pc = "drain"
    /\ Drained(p.awaiting)
    /\ sessionState' = [sessionState EXCEPT !.status = "ended", !.reason = p.reason]
    /\ IF sessionState.sessionId = None
       THEN /\ stops' = (stops \ {p}) \cup
                          {[p EXCEPT !.pc = "saveRejected", !.awaiting = {}]}
            /\ UNCHANGED db
       ELSE /\ stops' = (stops \ {p}) \cup {[p EXCEPT !.pc = "saveEnded", !.awaiting = {}]}
            /\ db' = [db EXCEPT !.sessions = PutSession(@, sessionState')]
    /\ UNCHANGED <<mediaRecorder, stream, baseStream, canvasReady, pendingWrites,
                   processedActionIds, stopping, streams, recorders, writes, starts,
                   exported, hostLog, counts>>
    /\ UNCHANGED <<coordVars, sharedVars, restVars>>

\* stopRecording line 218: exportSessionArchive(currentSessionId) is called
Export(sessionId) == [sessionId |-> sessionId, outcome |-> "pending", ack |-> FALSE]

\* stopRecording, lines 213-218: saveSession settles.  When it rejected,
\* stopRecording ends there with the stopping flag still set.  Otherwise the
\* status goes out and the export is called, or, with no currentSessionId,
\* the flag is cleared and the call returns.
StopSaved(p) ==
    /\ p \in stops /\ p.pc \in {"saveEnded", "saveRejected"}
    /\ IF p.pc = "saveRejected"
       THEN /\ stops' = stops \ {p}
            /\ UNCHANGED <<exported, stopping>>
       ELSE IF p.currentSessionId # None
            THEN /\ exported' = Append(exported, Export(p.currentSessionId))
                 /\ stops' = (stops \ {p}) \cup {[p EXCEPT !.pc = "export"]}
                 /\ UNCHANGED stopping
            ELSE /\ stopping' = FALSE
                 /\ stops' = stops \ {p}
                 /\ UNCHANGED exported
    /\ UNCHANGED <<sessionState, mediaRecorder, stream, baseStream, canvasReady,
                   pendingWrites, processedActionIds, streams, recorders, writes, starts,
                   db, hostLog, counts>>
    /\ UNCHANGED <<coordVars, sharedVars, restVars>>

ExportCaughtNever(ok) == ok

\* stopRecording, lines 216-223: the export and the download run inside
\* try/catch, so stopRecording goes on to line 224 whether they threw or not
ExportCaught(ok) == TRUE

\* stopRecording, lines 218-224: exportSessionArchive has settled.  When it
\* resolved the archive is downloaded; when it rejected the error is caught and
\* logged.  Either way the flag is cleared, the call returns and a
\* cua/recorder-stop listener sends its ack (lines 281-283).
StopExported(p, ok) ==
    /\ p \in stops /\ p.pc = "export"
    /\ exported' = [exported EXCEPT ![Len(exported)] =
                      [@ EXCEPT !.outcome = IF ok THEN "downloaded" ELSE "failed",
                                !.ack = (ExportCaught(ok) /\ p.reason = "user")]]
    /\ stopping' = (IF ExportCaught(ok) THEN FALSE ELSE stopping)
    /\ stops' = stops \ {p}
    /\ UNCHANGED <<sessionState, mediaRecorder, stream, baseStream, canvasReady,
                   pendingWrites, processedActionIds, streams, recorders, writes, starts,
                   db, hostLog, counts>>
    /\ UNCHANGED <<coordVars, sharedVars, restVars>>

\* handleAction, lines 251-263
handleAction(a) ==
    /\ IF ActionAccepted(sessionState) /\ a \notin processedActionIds
       THEN LET sid == sessionState.sessionId
                ws == {Write(1, "action", sid, a), Write(2, "before", sid, a),
                       Write(3, "after", sid, a)}
            IN  /\ counts.actions < MaxActions
                /\ Cardinality(writes) + 3 <= MaxUnsettled
                /\ processedActionIds' = processedActionIds \cup {a}
                /\ writes' = writes \cup ws
                /\ db' = [db EXCEPT !.actions =
                            PutAction(@, [actionId |-> a, sessionId |-> sid])]
                /\ pendingWrites' = pendingWrites \cup {w.id : w \in ws}
                /\ counts' = [counts EXCEPT !.actions = @ + 1]
                /\ hostLog' = [op |-> "action", status |-> sessionState.status,
                               sessionId |-> None, accepted |-> TRUE]
       ELSE /\ hostLog' = [op |-> "action", status |-> sessionState.status,
                           sessionId |-> None, accepted |-> FALSE]
            /\ UNCHANGED <<processedActionIds, writes, pendingWrites, counts, db>>
    /\ UNCHANGED <<sessionState, mediaRecorder, stream, baseStream, canvasReady, stopping,
                   streams, recorders, starts, stops, exported>>
    /\ UNCHANGED <<coordVars, sharedVars, restVars>>

\* Promise.all in the place of Promise.allSettled: the wait is over only
\* when every write has been fulfilled
AwaitAfterAll(awaiting, id, ok) == IF ok THEN awaiting \ {id} ELSE awaiting

\* Promise.allSettled(pending), line 60: a write that settles, fulfilled or
\* rejected, is no longer waited for
AwaitAfter(awaiting, id, ok) == awaiting \ {id}

\* The tracked work settles.  saveAction (line 257) and saveVideoChunk
\* (line 162) made their puts when they were called; captureScreenshot comes
\* back from its delay and toBlob and saves the screenshot with the sessionId
\* the host has at that moment (lines 238-247).  trackWrite's finally takes
\* the promise out of pendingWrites if it is still there (lines 48-51).
WriteSettled(w) ==
    /\ w \in writes
    /\ writes' = writes \ {w}
    /\ pendingWrites' = pendingWrites \ {w.id}
    /\ starts' = {[p EXCEPT !.awaiting = AwaitAfter(@, w.id, TRUE)] : p \in starts}
    /\ stops' = {[p EXCEPT !.awaiting = AwaitAfter(@, w.id, TRUE)] : p \in stops}
    /\ db' = IF w.kind \in {"before", "after"}
             THEN [db EXCEPT !.screenshots =
                      Stored(@, [sessionId |-> sessionState.sessionId,
                                 actionId |-> w.actionId, phase |-> w.kind])]
             ELSE db
    /\ UNCHANGED <<sessionState, mediaRecorder, stream, baseStream, canvasReady,
                   processedActionIds, stopping, streams, recorders,
                   exported, hostLog, counts>>
    /\ UNCHANGED <<coordVars, sharedVars, restVars>>

MaxFaults == 1

\* The tracked work of a chunk or of a screenshot is rejected: saveVideoChunk
\* or saveScreenshot failed, or the enforceLimits after it did.  trackWrite
\* logs the error, its finally takes the promise out of pendingWrites and
\* the rejection goes nowhere (`void trackWrite`, lines 42-54, 172).  lost is
\* the chunk record that is not in the store after all, if any.
WriteRejected(w, lost) ==
    /\ faultLog.rejected < MaxFaults
    /\ w \in writes /\ w.kind \in {"chunk", "before", "after"}
    /\ lost \subseteq {c \in db.videoChunks : w.kind = "chunk" /\ c.sessionId = w.issuedFor}
    /\ Cardinality(lost) <= 1
    /\ writes' = writes \ {w}
    /\ pendingWrites' = pendingWrites \ {w.id}
    /\ starts' = {[p EXCEPT !.awaiting = AwaitAfter(@, w.id, FALSE)] : p \in starts}
    /\ stops' = {[p EXCEPT !.awaiting = AwaitAfter(@, w.id, FALSE)] : p \in stops}
    /\ db' = [db EXCEPT !.videoChunks = @ \ lost]
    /\ faultLog' = [faultLog EXCEPT !.rejected = @ + 1,
                                    !.status = sessionState.status,
                                    !.sessionId = w.issuedFor,
                                    !.chunks = Cardinality(db'.videoChunks)]
    /\ UNCHANGED <<sessionState, mediaRecorder, stream, baseStream, canvasReady,
                   processedActionIds, stopping, streams, recorders,
                   exported, hostLog, counts>>
    /\ UNCHANGED <<coordVars, sharedVars, storeVars, exportVars, fwdVars, restartVars,
                   streamVars>>

\* startRecording, lines 152-153: the session record is saved and the
\* enforceLimits that follows rejects; the rejection leaves startRecording
\* before the encoder is created
StartEvictionFailed(p) ==
    /\ faultLog.evictions < MaxFaults
    /\ p \in starts /\ p.pc = "saveSession"
    /\ starts' = starts \ {p}
    /\ faultLog' = [faultLog EXCEPT !.evictions = @ + 1]
    /\ UNCHANGED <<sessionState, mediaRecorder, stream, baseStream, canvasReady,
                   pendingWrites, processedActionIds, stopping, streams, recorders,
                   writes, stops, db, exported, hostLog, counts>>
    /\ UNCHANGED <<coordVars, sharedVars, storeVars, exportVars, fwdVars, restartVars,
                   streamVars>>

\* ------------------------------------------------------------------------
\* Object stores and their limits (db.ts: saveAction .. enforceLimits)
\* ------------------------------------------------------------------------

\* The stores enforceLimits trims, of which two are modelled
StoreNames == {"actions", "screenshots"}

\* enforceLimits, `limits`: the configured maxima, scaled down; as in the
\* code the actions store is allowed more records than the others
limits == [s \in StoreNames |-> IF s = "actions" THEN MaxKept + 1 ELSE MaxKept]

\* records created so far, in all stores
Created == UNION {stores[s] \cup deleted[s] : s \in StoreNames}

\* trimOldest with an off-by-one target
ExcessLessOne(count, max) == count - max - 1

\* trimOldest, `toRemove`: how many records the store holds beyond its maximum
Excess(count, max) == count - max

\* trimOldest with the records of the active session left alone
OldestSetsOfOthers(recs, n) ==
    LET others == {r \in recs : r.key <= activeFrom}
    IN  {D \in SUBSET others :
           /\ Cardinality(D) = IF n < Cardinality(others) THEN n ELSE Cardinality(others)
           /\ \A d \in D, r \in others \ D : d.createdAt <= r.createdAt}

\* trimOldest, the cursor over the createdAt index: the sets of n records
\* (all of them if there are fewer) that the cursor can delete, oldest
\* first; records with equal createdAt come in the order of their keys,
\* which are random
OldestSets(recs, n) ==
    {D \in SUBSET recs :
        /\ Cardinality(D) = IF n < Cardinality(recs) THEN n ELSE Cardinality(recs)
        /\ \A d \in D, r \in recs \ D : d.createdAt <= r.createdAt}

\* saveAction / saveScreenshot / saveVideoChunk: a record with a fresh key
\* and createdAt = Date.now() is put into store s.  Date.now() may return
\* the value it returned last.
StorePut(s, t) ==
    /\ Cardinality(Created) < MaxPuts
    /\ t \in {clock, clock + 1}
    /\ clock' = t
    /\ stores' = [stores EXCEPT ![s] = @ \cup {[key |-> Cardinality(Created) + 1,
                                              createdAt |-> t]}]
    /\ runs' = {[r EXCEPT !.clean = FALSE] : r \in runs}
    /\ UNCHANGED <<deleted, nRuns, runLog, uuid, activeFrom>>
    /\ UNCHANGED <<coordVars, hostVars, exportVars, fwdVars, extraVars>>

\* enforceLimits is called: one trimOldest per store, each parked at its
\* countStore
EnforceLimitsCalled ==
    /\ nRuns < MaxRuns
    /\ nRuns' = nRuns + 1
    /\ runs' = runs \cup {[id |-> nRuns + 1, clean |-> TRUE, removed |-> 0,
                           trim |-> [s \in StoreNames |->
                                        [pc |-> "count", toRemove |-> 0]]]}
    /\ UNCHANGED <<stores, deleted, runLog, activeFrom>>
    /\ UNCHANGED <<coordVars, sharedVars, hostVars, exportVars, fwdVars, extraVars>>

\* A trimOldest of run r has returned.  When it was the last one,
\* Promise.all resolves and enforceLimits returns.
TrimReturned(r, r2) ==
    IF \A s \in StoreNames : r2.trim[s].pc = "done"
    THEN /\ runs' = runs \ {r}
         /\ runLog' = [id |-> r2.id, clean |-> r2.clean, removed |-> r2.removed]
    ELSE /\ runs' = (runs \ {r}) \cup {r2}
         /\ UNCHANGED runLog

\* trimOldest lines 134-135: countStore has answered
TrimCounted(r, s) ==
    /\ r \in runs /\ r.trim[s].pc = "count"
    /\ LET toRemove == Excess(Cardinality(stores[s]), limits[s])
       IN  IF toRemove <= 0
           THEN TrimReturned(r, [r EXCEPT !.trim[s].pc = "done"])
           ELSE /\ runs' = (runs \ {r}) \cup
                             {[r EXCEPT !.trim[s] = [pc |-> "delete",
                                                     toRemove |-> toRemove]]}
                /\ UNCHANGED runLog
    /\ UNCHANGED <<stores, deleted, nRuns, activeFrom>>
    /\ UNCHANGED <<coordVars, sharedVars, hostVars, exportVars, fwdVars, extraVars>>

\* trimOldest lines 136-152: the readwrite transaction with the cursor has
\* run; D is what it deleted
TrimDeleted(r, s, D) ==
    /\ r \in runs /\ r.trim[s].pc = "delete"
    /\ D \in OldestSets(stores[s], r.trim[s].toRemove)
    /\ stores' = [stores EXCEPT ![s] = @ \ D]
    /\ deleted' = [deleted EXCEPT ![s] = @ \cup D]
    /\ TrimReturned(r, [r EXCEPT !.trim[s].pc = "done",
                                 !.removed = @ + Cardinality(D)])
    /\ UNCHANGED <<nRuns, activeFrom>>
    /\ UNCHANGED <<coordVars, sharedVars, hostVars, exportVars, fwdVars, extraVars>>

\* startRecording lines 144-150: a new session id is assigned; the records
\* saved from now on carry it (lines 163, 235, 257), the ones created before
\* carry the ids of earlier sessions.  One such start is followed.
SessionBegins ==
    /\ activeFrom = 0 /\ Cardinality(Created) > 0
    /\ activeFrom' = Cardinality(Created)
    /\ UNCHANGED <<stores, deleted, runs, nRuns, runLog>>
    /\ UNCHANGED <<coordVars, sharedVars, hostVars, exportVars, fwdVars, extraVars>>

\* loadSessionBundle, getBySession(store, sessionId) for the active
\* session: the records of the store that carry its id
getBySession(recs) == {r \in recs : r.key > activeFrom}


\* ------------------------------------------------------------------------
\* Session archive (offscreen/src/export.ts)
\* ------------------------------------------------------------------------

MaxShots == 2
MaxVideo == 2

SeqsUpTo(S, n) == UNION {[1..k -> S] : k \in 0..n}

\* A StoredScreenshot as the archive reads it: data is optional
\* (cua.ts line 76) and, when present, a Blob with a type
ShotRecords == [data : {"missing", "image/png", "image/jpeg"}]

\* A StoredVideoChunk: data and mimeType are optional (cua.ts lines 86-89)
ChunkRecords == [data : {"missing", "blob"},
                 mimeType : {"missing", "video/webm"}]

\* SessionExportBundle (lines 7-12): was the session record found, the
\* number of actions, the screenshots and the chunks in sorted order.  A
\* record's key (screenshotId, chunkId) is its position.
Bundles == [session : BOOLEAN, actions : 0..1,
            screenshots : SeqsUpTo(ShotRecords, MaxShots),
            videoChunks : SeqsUpTo(ChunkRecords, MaxVideo)]

NoArchive == [built |-> "none", files |-> {},
              counts |-> [actions |-> 0, screenshots |-> 0, videoChunks |-> 0]]

\* line 59: the bytes of the blob, undefined without a blob
blobToU8(data) == data # "missing"

\* lines 67-75: one file per screenshot that has a payload
ShotFiles(shots) ==
    {[dir |-> "screenshots", id |-> i,
      ext |-> IF shots[i].data = "image/png" THEN "png" ELSE "bin"] :
        i \in {j \in DOMAIN shots : blobToU8(shots[j].data)}}

\* lines 77-85: one file per chunk that has a payload
ChunkFiles(chunks) ==
    {[dir |-> "video", id |-> i,
      ext |-> IF chunks[i].mimeType = "video/webm" THEN "webm" ELSE "bin"] :
        i \in {j \in DOMAIN chunks : blobToU8(chunks[j].data)}}

\* lines 61-115: the files of the archive and the counts of its manifest
buildSessionArchive(b) ==
    IF ~b.session
    THEN [NoArchive EXCEPT !.built = "thrown"]
    ELSE [built |-> "zip",
          files |-> ShotFiles(b.screenshots) \cup ChunkFiles(b.videoChunks)
                    \cup {[dir |-> "", id |-> 0, ext |-> "manifest.json"]},
          counts |-> [actions |-> b.actions,
                      screenshots |-> Len(b.screenshots),
                      videoChunks |-> Len(b.videoChunks)]]

\* loadSessionBundle has returned b
LoadSessionBundle(b) ==
    /\ b \in Bundles
    /\ bundle' = b
    /\ archive' = NoArchive
    /\ UNCHANGED <<coordVars, sharedVars, hostVars, storeVars, fwdVars, extraVars>>

\* buildSessionArchive runs on the loaded bundle
BuildSessionArchive ==
    /\ archive.built = "none"
    /\ archive' = buildSessionArchive(bundle)
    /\ UNCHANGED bundle
    /\ UNCHANGED <<coordVars, sharedVars, hostVars, storeVars, fwdVars, extraVars>>

\* ------------------------------------------------------------------------
\* Forwarding coordinator (unnamed/part_001)
\* ------------------------------------------------------------------------

MaxQueries == 2

\* the statuses the Recorder Host's sessionState takes
HostStatuses == {"idle", "recording", "stopping", "ended"}

\* How chrome.runtime.sendMessage of line 114 can settle: the host's
\* listener answers when the host exists; without the host the promise
\* rejects when nobody listens, and with another page listening (their
\* listeners never answer) it resolves empty or rejects with the port closed.
SendOutcomes(alive, others) ==
    IF alive THEN {"answered"}
    ELSE IF others THEN {"empty", "rejected"} ELSE {"rejected"}

StatusAnswerCached(outcome, hostStatus) == hostStatus

\* lines 115-122: the response is relayed as it came, a rejection is
\* answered with idle
StatusAnswer(outcome, hostStatus) ==
    CASE outcome = "answered" -> hostStatus
      [] outcome = "empty" -> "unknown"
      [] OTHER -> "idle"

\* the Recorder Host assigns sessionState
\* (offscreen/index.ts lines 144-150, 189-192, 212, 292)
FwdHostStatus(st) ==
    /\ fwdHost.alive
    /\ st \in HostStatuses \ {fwdHost.status}
    /\ fwdHost' = [fwdHost EXCEPT !.status = st]
    /\ UNCHANGED <<listeners, queries, nQueries, answers>>
    /\ UNCHANGED <<coordVars, sharedVars, hostVars, storeVars, exportVars, extraVars>>

\* the offscreen document is closed; status keeps what sessionState held
FwdHostDestroyed ==
    /\ fwdHost.alive
    /\ fwdHost' = [fwdHost EXCEPT !.alive = FALSE]
    /\ UNCHANGED <<listeners, queries, nQueries, answers>>
    /\ UNCHANGED <<coordVars, sharedVars, hostVars, storeVars, exportVars, extraVars>>

\* ensureOffscreenDocument (lines 8-35) creates the document, whose
\* sessionState starts idle (offscreen/index.ts line 23)
FwdHostCreated ==
    /\ ~fwdHost.alive
    /\ fwdHost' = [alive |-> TRUE, status |-> "idle"]
    /\ UNCHANGED <<listeners, queries, nQueries, answers>>
    /\ UNCHANGED <<coordVars, sharedVars, hostVars, storeVars, exportVars, extraVars>>

\* the popup or the options page is opened or closed
FwdPageToggled ==
    /\ listeners' = ~listeners
    /\ UNCHANGED <<fwdHost, queries, nQueries, answers>>
    /\ UNCHANGED <<coordVars, sharedVars, hostVars, storeVars, exportVars, extraVars>>

\* lines 110-114: a cua/status-request arrives and is forwarded
FwdStatusRequest ==
    /\ nQueries < MaxQueries
    /\ nQueries' = nQueries + 1
    /\ queries' = queries \cup {[id |-> nQueries + 1, pc |-> "sent",
                                 sentToHost |-> fwdHost.alive,
                                 lost |-> FALSE, answer |-> "none"]}
    /\ UNCHANGED <<fwdHost, listeners, answers>>
    /\ UNCHANGED <<coordVars, sharedVars, hostVars, storeVars, exportVars, extraVars>>

\* the forwarded message is dispatched and the promise of line 114 settles
FwdDelivered(q, outcome) ==
    /\ q \in queries /\ q.pc = "sent"
    /\ outcome \in SendOutcomes(fwdHost.alive, listeners)
    /\ queries' = (queries \ {q}) \cup
                    {[q EXCEPT !.pc = "settled", !.lost = ~fwdHost.alive,
                               !.answer = StatusAnswer(outcome, fwdHost.status)]}
    /\ UNCHANGED <<fwdHost, listeners, nQueries, answers>>
    /\ UNCHANGED <<coordVars, sharedVars, hostVars, storeVars, exportVars, extraVars>>

\* lines 115-122: the then or the catch callback calls sendResponse
FwdRelayed(q) ==
    /\ q \in queries /\ q.pc = "settled"
    /\ queries' = queries \ {q}
    /\ answers' = [id |-> q.id, status |-> q.answer, lost |-> q.lost,
                   sentToHost |-> q.sentToHost,
                   hostStatus |-> fwdHost.status, hostAlive |-> fwdHost.alive]
    /\ UNCHANGED <<fwdHost, listeners, nQueries>>
    /\ UNCHANGED <<coordVars, sharedVars, hostVars, storeVars, exportVars, extraVars>>


CoordInit ==
    /\ bgSessionState = BgIdle
    /\ offscreenReady = FALSE
    /\ offscreenQueue = <<>>
    /\ calls = {}
    /\ nCalls = 0
    /\ lastReturn = Response("none", FALSE, BgIdle)
    /\ flights = {}
    /\ submitted = <<>>
    /\ delivered = <<>>
    /\ failures = 0
    /\ readies = 0

SharedInit ==
    /\ clock = 1
    /\ uuid = 1

HostInit ==
    /\ sessionState = HostIdle("")
    /\ mediaRecorder = None
    /\ stream = None
    /\ baseStream = None
    /\ canvasReady = FALSE
    /\ pendingWrites = {}
    /\ processedActionIds = {}
    /\ stopping = FALSE
    /\ streams = <<>>
    /\ recorders = <<>>
    /\ writes = {}
    /\ starts = {}
    /\ stops = {}
    /\ db = [sessions |-> {}, actions |-> {}, screenshots |-> {}, videoChunks |-> {}]
    /\ exported = <<>>
    /\ hostLog = [op |-> "none", status |-> "idle", sessionId |-> None,
                  accepted |-> FALSE]
    /\ counts = [starts |-> 0, stops |-> 0, actions |-> 0, chunks |-> 0]

StoreInit ==
    /\ stores = [s \in StoreNames |-> {}]
    /\ deleted = [s \in StoreNames |-> {}]
    /\ runs = {}
    /\ nRuns = 0
    /\ runLog = [id |-> 0, clean |-> FALSE, removed |-> 0]
    /\ activeFrom = 0

ExportInit ==
    /\ bundle = [session |-> FALSE, actions |-> 0,
                 screenshots |-> <<>>, videoChunks |-> <<>>]
    /\ archive = NoArchive

FwdInit ==
    /\ fwdHost = [alive |-> TRUE, status |-> "idle"]
    /\ listeners = FALSE
    /\ queries = {}
    /\ nQueries = 0
    /\ answers = [id |-> 0, status |-> "none", lost |-> FALSE,
                  sentToHost |-> TRUE,
                  hostStatus |-> "idle", hostAlive |-> TRUE]

RestartInit ==
    /\ recreated = 0
    /\ bgReply = [asked |-> FALSE, status |-> "idle", sessionId |-> None,
                  host |-> HostAfter(<<>>), recreated |-> FALSE]

FaultInit ==
    faultLog = [rejected |-> 0, evictions |-> 0, status |-> "idle",
                sessionId |-> None, chunks |-> 0]

StreamInit ==
    /\ streamRequests = {}
    /\ nRequests = 0
    /\ streamResponses = {}
    /\ srHost = [status |-> "idle", reason |-> "", by |-> None]

Init ==
    /\ CoordInit /\ SharedInit /\ HostInit /\ StoreInit /\ ExportInit /\ FwdInit
    /\ RestartInit /\ StreamInit /\ FaultInit

NextCoord ==
    \/ \E src \in Sources : handleStartRequest(src)
    \/ \E c \in calls : StartGotTab(c)
    \/ \E c \in calls : StartSend(c)
    \/ handleStopRequest("user")
    \/ handleActionEvent
    \/ OnOffscreenReady
    \/ \E f \in flights : FlushSettle(f)

SpecCoord == Init /\ [][NextCoord]_vars

\* The coordinator with its service worker stopped and started again by the
\* browser, and status requests
NextCoordRestart ==
    \/ NextCoord
    \/ CoordRecreated
    \/ StatusRequest

SpecCoordRestart == Init /\ [][NextCoordRestart]_vars

\* The event loop resumes every handler whose await has settled, and every
\* chrome.runtime.sendMessage call settles.  A resident host has sent its
\* ready signals when it was loaded and owes none.
CoordProgress ==
    /\ WF_vars(\E c \in calls : StartGotTab(c))
    /\ WF_vars(\E c \in calls : StartSend(c))
    /\ WF_vars(\E f \in flights : FlushSettle(f))

FairSpecCoordRestart == Init /\ [][NextCoordRestart]_vars /\ CoordProgress

\* The capture lifecycle of the Recorder Host: starts, stops, revoked sources,
\* failed stream requests and the encoder's segments, whose saves are the
\* tracked writes
NextHost ==
    \/ startRecording
    \/ \E p \in starts : StartTornDown(p)
    \/ \E p \in starts, ok \in BOOLEAN : StartGotStream(p, ok)
    \/ \E p \in starts : StartSession(p)
    \/ \E p \in starts : StartRecorder(p)
    \/ StreamResponseError
    \/ RecorderStop
    \/ \E s \in DOMAIN streams : TrackEnded(s)
    \/ \E r \in DOMAIN recorders, hasData \in BOOLEAN : TimesliceElapsed(r, hasData)
    \/ \E r \in DOMAIN recorders, hasData \in BOOLEAN : RecorderFlushed(r, hasData)
    \/ \E p \in stops : StopDrained(p)
    \/ \E p \in stops : StopSaved(p)
    \/ \E p \in stops, ok \in BOOLEAN : StopExported(p, ok)
    \/ \E w \in writes : WriteSettled(w)

SpecHost == Init /\ [][NextHost]_vars

\* The event loop runs every task that is ready: the stopped encoder
\* delivers its stop event, IndexedDB requests and the export settle, and
\* stopRecording resumes after each await
HostProgress ==
    /\ WF_vars(\E r \in DOMAIN recorders, hasData \in BOOLEAN : RecorderFlushed(r, hasData))
    /\ WF_vars(\E w \in writes : WriteSettled(w))
    /\ WF_vars(\E p \in stops : StopDrained(p))
    /\ WF_vars(\E p \in stops : StopSaved(p))
    /\ WF_vars(\E p \in stops, ok \in BOOLEAN : StopExported(p, ok))

FairSpecHost == Init /\ [][NextHost]_vars /\ HostProgress

\* The capture lifecycle with persistence failures: the tracked work of an
\* artifact is rejected, the eviction run of a start is rejected
NextHostFaults ==
    \/ NextHost
    \/ \E w \in writes : \E lost \in SUBSET db.videoChunks : WriteRejected(w, lost)
    \/ \E p \in starts : StartEvictionFailed(p)

SpecHostFaults == Init /\ [][NextHostFaults]_vars

\* Action handling in the Recorder Host: cua/action messages arrive at any
\* moment of sessions started and stopped by message; the encoder has no
\* data to hand over (event.data.size = 0, line 160), so the tracked writes
\* are those of handleAction
NextHostActions ==
    \/ startRecording
    \/ \E p \in starts : StartTornDown(p)
    \/ \E p \in starts, ok \in BOOLEAN : StartGotStream(p, ok)
    \/ \E p \in starts : StartSession(p)
    \/ \E p \in starts : StartRecorder(p)
    \/ RecorderStop
    \/ \E r \in DOMAIN recorders : RecorderFlushed(r, FALSE)
    \/ \E p \in stops : StopDrained(p)
    \/ \E p \in stops : StopSaved(p)
    \/ \E p \in stops, ok \in BOOLEAN : StopExported(p, ok)
    \/ \E a \in ActionIds : handleAction(a)
    \/ \E w \in writes : WriteSettled(w)

SpecHostActions == Init /\ [][NextHostActions]_vars

\* Records are put into the object stores and enforceLimits is called, as
\* the host does after every save (index.ts lines 153, 170, 248, 258)
NextStore ==
    \/ \E s \in StoreNames, t \in {clock, clock + 1} : StorePut(s, t)
    \/ EnforceLimitsCalled
    \/ \E r \in runs, s \in StoreNames : TrimCounted(r, s)
    \/ \E r \in runs, s \in StoreNames : \E D \in SUBSET stores[s] : TrimDeleted(r, s, D)

SpecStore == Init /\ [][NextStore]_vars

\* The object stores filled by one session after another
NextStoreSessions ==
    \/ NextStore
    \/ SessionBegins

SpecStoreSessions == Init /\ [][NextStoreSessions]_vars


\* buildSessionArchive applied to every bundle within the bounds
NextExport ==
    \/ \E b \in Bundles : LoadSessionBundle(b)
    \/ BuildSessionArchive

SpecExport == Init /\ [][NextExport]_vars


\* The forwarding coordinator relays status requests while the Recorder
\* Host changes status, is closed and is created again
NextFwd ==
    \/ \E st \in HostStatuses : FwdHostStatus(st)
    \/ FwdHostDestroyed
    \/ FwdHostCreated
    \/ FwdPageToggled
    \/ FwdStatusRequest
    \/ \E q \in queries, o \in {"answered", "empty", "rejected"} : FwdDelivered(q, o)
    \/ \E q \in queries : FwdRelayed(q)

SpecFwd == Init /\ [][NextFwd]_vars


\* Stream requests from the popup, answered by the forwarding coordinator
\* and received by the Recorder Host
NextStream ==
    \/ StreamRequested
    \/ \E q \in streamRequests, o \in StreamOutcomes : HandleStreamRequest(q, o)
    \/ \E m \in streamResponses : HostStreamResponse(m)

SpecStream == Init /\ [][NextStream]_vars

\* ------------------------------------------------------------------------
\* Session Coordinator: properties
\* ------------------------------------------------------------------------

\* The messages handed to sendToOffscreen so far, in submission order
SubmittedMessages == [k \in DOMAIN submitted |-> submitted[k].msg]

\* C5: a start handled while the coordinator's status is recording and a
\* session id is assigned responds with the existing snapshot, leaves
\* sessionState as it was, and neither sends nor queues anything for the host.
C5_StartWhileRecordingIsNoop ==
    [][((\E src \in Sources : handleStartRequest(src))
          /\ bgSessionState.status = "recording"
          /\ bgSessionState.sessionId # None)
       => /\ bgSessionState' = bgSessionState
          /\ lastReturn' = Response("start", TRUE, bgSessionState)
          /\ UNCHANGED <<offscreenQueue, flights, submitted, delivered, calls>>]_vars

\* A start was answered as a no-op for a recording session
C5_Witness ==
    /\ lastReturn.kind = "start" /\ lastReturn.noop
    /\ lastReturn.session.status = "recording"
    /\ lastReturn.session.sessionId # None

\* C6: a stop handled while no session id is assigned responds with the
\* current snapshot, stamps neither endedAt nor reason, and neither sends nor
\* queues anything for the host.
C6_StopWithoutSessionIsNoop ==
    [][(handleStopRequest("user") /\ bgSessionState.sessionId = None)
       => /\ bgSessionState' = bgSessionState
          /\ lastReturn' = Response("stop", TRUE, bgSessionState)
          /\ UNCHANGED <<offscreenQueue, flights, submitted, delivered, calls>>]_vars

\* A stop was answered as a no-op with the idle snapshot
C6_Witness ==
    /\ lastReturn.kind = "stop" /\ lastReturn.noop
    /\ lastReturn.session = BgIdle

\* C7: every action event handed on to the host (sent or queued) arrived
\* while the coordinator's status was recording.
C7_ActionsForwardedOnlyWhileRecording ==
    \A k \in DOMAIN submitted :
        submitted[k].msg.type = "cua/offscreen/action"
            => submitted[k].atStatus = "recording"

\* C9: while offscreenReady is false nothing has been transmitted, and the
\* queue is exactly the submitted messages in submission order.
C9_QueuedInOrderUntilReady ==
    ~offscreenReady =>
        /\ flights = {}
        /\ delivered = <<>>
        /\ offscreenQueue = SubmittedMessages

\* Two messages of different kinds are waiting for a host that is not ready
C9_Witness ==
    /\ ~offscreenReady
    /\ Len(offscreenQueue) >= 2
    /\ offscreenQueue[1].type # offscreenQueue[2].type

\* C10: the host receives messages in the order they were submitted to
\* sendToOffscreen.
C10_DeliveredInSubmissionOrder ==
    \A i, j \in DOMAIN delivered :
        i < j => delivered[i].id < delivered[j].id

\* C23: a start that takes the coordinator from an ended session to a new
\* recording gives the new session an id other than the ended session's.
C23_NewCycleGetsNewId ==
    [][(bgSessionState.status = "ended" /\ bgSessionState'.status = "recording")
       => bgSessionState'.sessionId # bgSessionState.sessionId]_vars

\* C24: once the coordinator's session has ended, a further stop request
\* leaves the snapshot (session id, startedAt, endedAt, reason) as it is and
\* hands nothing to sendToOffscreen.
C24_EndedSnapshotIsFrozen ==
    [][(bgSessionState.status = "ended" /\ handleStopRequest("user"))
       => (bgSessionState' = bgSessionState /\ submitted' = submitted)]_vars

\* C21: after the coordinator's context was destroyed and created again
\* while the host is recording, the reply to a status request says recording
\* and carries a session id.
C21_ReplyReportsHostState ==
    (bgReply.asked /\ bgReply.recreated /\ bgReply.host.status = "recording")
        => (bgReply.status = "recording" /\ bgReply.sessionId # None)

\* C32: a message whose delivery failed is put back and left for the next
\* flush: the flush run that sent it does not send it again.
C32_FailedDeliveryLeftForNextFlush ==
    [][\A f \in flights :
          (~f.ok /\ FlushSettle(f))
          => ~\E g \in flights' : g.owner = f.owner /\ g.msg = f.msg]_vars

\* C35: start requests handled at the same time make one session: the
\* snapshots that the start handlers in progress will answer with carry
\* the same session id.
C35_ConcurrentStartsShareSession ==
    \A c1, c2 \in calls :
       (c1.kind = "start" /\ c2.kind = "start")
       => c1.next.sessionId = c2.next.sessionId

\* C36: once the coordinator's context has been created again during a
\* recording and the new context has answered a stop request, the stop
\* reaches the host and the host's session ends.  (The new context has
\* handled no start: its state is idle, so the host records since before.)
C36_StopAfterRestartReachesHost ==
    (recreated > 0 /\ lastReturn.kind = "stop" /\ bgSessionState.status = "idle"
        /\ HostAfter(delivered).status = "recording")
    ~> (HostAfter(delivered).status = "ended")

\* C39: every message handed to sendToOffscreen is in exactly one place:
\* once in offscreenQueue, or in a send that will be rejected and put back,
\* or handed to the host once (a send that the host acknowledges).
C39_NoMessageLostOrDuplicated ==
    \A k \in DOMAIN submitted :
       LET m == submitted[k].msg
       IN  Cardinality({i \in DOMAIN offscreenQueue : offscreenQueue[i] = m})
             + Cardinality({f \in flights : f.msg = m /\ ~f.ok})
             + Cardinality({i \in DOMAIN delivered : delivered[i] = m}) = 1

\* A send of one flush has been rejected while a send of another flush is
\* under way, and messages wait in the queue
C39_Witness ==
    /\ \E f, g \in flights : ~f.ok /\ g.ok /\ f.owner # g.owner
    /\ offscreenQueue # <<>>
    /\ failures > 0

\* ------------------------------------------------------------------------
\* Recorder Host: properties
\* ------------------------------------------------------------------------

\* The transitions of the session status FSM
FsmEdges ==
    {<<"idle", "consenting">>, <<"idle", "recording">>,
     <<"consenting", "recording">>, <<"consenting", "idle">>,
     <<"recording", "paused">>, <<"recording", "stopping">>,
     <<"paused", "recording">>, <<"paused", "stopping">>,
     <<"stopping", "ended">>,
     <<"ended", "consenting">>, <<"ended", "recording">>}

\* C1: every change of the session status, in the host and in the
\* coordinator, is a transition of the FSM: recording is left only to paused
\* or stopping, and ended is entered only from stopping.
C1_StatusFollowsFsm ==
    [][/\ sessionState'.status # sessionState.status
          => <<sessionState.status, sessionState'.status>> \in FsmEdges
       /\ bgSessionState'.status # bgSessionState.status
          => <<bgSessionState.status, bgSessionState'.status>> \in FsmEdges]_vars

\* C2: two captures never coexist in the host: every acquired stream with
\* live tracks is the one held in `stream`, and every active MediaRecorder is
\* the one held in `mediaRecorder`.
C2_NoTwoCaptures ==
    /\ \A s \in DOMAIN streams : streams[s].live => s = stream
    /\ \A r \in DOMAIN recorders : recorders[r].state = "recording" => r = mediaRecorder

\* C3: stopRecording marks its session ended, and calls the export for it,
\* only when every tracked write issued for that session has settled.
C3_EndedAfterWritesSettled ==
    [][/\ \A p \in stops :
            StopDrained(p) => \A w \in writes : w.issuedFor # p.currentSessionId
       /\ Len(exported') > Len(exported)
            => \A w \in writes :
                 w.issuedFor # exported'[Len(exported')].sessionId]_vars

\* C4: for every session id and action id at most one screenshot of phase
\* before and at most one of phase after is persisted.
C4_OneScreenshotPerPhase ==
    \A x, y \in db.screenshots : x.rec = y.rec => x = y

\* C8: an action handled by the host while its status is not recording
\* writes no record, issues no write, and leaves pendingWrites and
\* processedActionIds as they were.
C8_ActionOutsideRecordingIgnored ==
    [][(/\ \E a \in ActionIds : handleAction(a)
        /\ sessionState.status # "recording")
       => UNCHANGED <<db, writes, pendingWrites, processedActionIds>>]_vars

\* An action arrived while the host was stopping a session and was not taken
C8_Witness ==
    /\ hostLog.op = "action" /\ ~hostLog.accepted
    /\ hostLog.status = "stopping"
    /\ sessionState.sessionId # None

\* C11: when a track of the active stream ends while the host is recording
\* session sid, the session's ended record is eventually persisted and its
\* export is eventually called, with no stop message.
C11_TrackEndedLeadsToEnded ==
    \A sid \in 1..MaxStarts :
        (hostLog.op = "track-ended" /\ hostLog.status = "recording"
            /\ hostLog.sessionId = sid)
        ~> (/\ \E r \in db.sessions : r.sessionId = sid /\ r.status = "ended"
            /\ \E k \in DOMAIN exported : exported[k].sessionId = sid)

\* C12: a stop request or track-ended notification that arrives while a
\* stop is in progress changes nothing (beyond the ended track itself), and
\* no session is exported more than once.
C12_StopReentryIsNoop ==
    /\ [][(stopping /\ (RecorderStop \/ \E s \in DOMAIN streams : TrackEnded(s)))
          => UNCHANGED <<sessionState, mediaRecorder, stream, baseStream, recorders,
                         pendingWrites, writes, stops, stopping, db, exported>>]_vars
    /\ [](\A i, j \in DOMAIN exported :
              exported[i].sessionId = exported[j].sessionId => i = j)

\* C15: the chunk records of a session have distinct timecodes, and a chunk
\* emitted before another one has the smaller createdAt, so that the export,
\* which sorts the chunks by createdAt, lists them in emission order.
C15_ChunksInEmissionOrder ==
    \A x, y \in db.videoChunks :
        x.sessionId = y.sessionId
        => /\ x # y => x.timecode # y.timecode
           /\ x.timecode < y.timecode => x.createdAt < y.createdAt

\* C16: a dataavailable event without data puts no record into a store and
\* adds no tracked write.
C16_EmptySegmentDiscarded ==
    [][(\E r \in DOMAIN recorders :
            TimesliceElapsed(r, FALSE) \/ RecorderFlushed(r, FALSE))
       => /\ db' = db
          /\ writes' = writes
          /\ pendingWrites' \subseteq pendingWrites]_vars

\* A timeslice has elapsed on a running recorder without data, and no chunk
\* has been stored
C16_Witness ==
    /\ counts.chunks > 0
    /\ db.videoChunks = {} /\ writes = {}
    /\ \E r \in DOMAIN recorders :
          recorders[r].state = "recording" /\ recorders[r].emitted = 0

\* C22: the sessions store never holds two records whose status is other
\* than ended.
C22_OneOpenSessionRecord ==
    Cardinality({r \in db.sessions : r.status # "ended"}) <= 1

\* C18: when the export at the end of stopRecording fails, nothing of the
\* stop is undone: sessionState and the persisted records are as the stop left
\* them (ended), the stopRecording call ends with the stopping flag cleared,
\* and a stop asked for by message is acknowledged.
C18_ExportFailureKeepsEnded ==
    [][\A p \in stops :
          (p.pc = "export" /\ StopExported(p, FALSE)) =>
              /\ sessionState' = sessionState /\ db' = db
              /\ (sessionState.status = "ended" => sessionState'.status = "ended")
              /\ \A r \in db.sessions : r.status = "ended" => r \in db'.sessions
              /\ ~stopping'
              /\ p \notin stops'
              /\ (p.reason = "user" => exported'[Len(exported')].ack)]_vars

\* A stop asked for by message has ended session 1 in memory and in the
\* store, its export failed, and the call has returned and been acknowledged
C18_Witness ==
    /\ exported # <<>>
    /\ LET x == exported[Len(exported)]
       IN  /\ x.outcome = "failed" /\ x.ack
           /\ sessionState.status = "ended" /\ sessionState.sessionId = x.sessionId
           /\ \E r \in db.sessions : r.sessionId = x.sessionId /\ r.status = "ended"
    /\ ~stopping /\ stops = {}

\* C19: when startRecording fails, because getUserMedia rejects or because
\* the encoder cannot be created, the host's status afterwards is idle or
\* ended.
C19_FailedStartLeavesIdleOrEnded ==
    [][(\E p \in starts :
           \/ (p.pc = "gum" /\ StartGotStream(p, FALSE))
           \/ (p.pc = "saveSession" /\ stream = None /\ StartRecorder(p)))
       => sessionState'.status \in {"idle", "ended"}]_vars

\* C27: a stopRecording whose saveSession was rejected does not end
\* there: the call goes on (to save again).
C27_FailedSessionSaveIsRetried ==
    [][\A p \in stops :
          (p.pc = "saveRejected" /\ StopSaved(p)) => \E q \in stops' : q.id = p.id]_vars

\* C29: the stopRecording run started by a track that ended has the reason
\* source-ended.
C29_TrackEndedReason ==
    [][((\E s \in DOMAIN streams : TrackEnded(s)) /\ ~StopIgnored)
       => \A p \in stops' \ stops : p.reason = "source-ended"]_vars

\* C30: stopRecording stops the tracks of the stream only after the encoder
\* has acknowledged its stop: in the task that asks a running encoder to
\* stop, the stream's tracks stay live.
C30_TracksStoppedAfterEncoderAck ==
    [][(RecorderStop /\ ~StopIgnored /\ stream # None /\ mediaRecorder # None
          /\ recorders[mediaRecorder].state = "recording")
       => streams'[stream].live]_vars

\* C31: startRecording asks for the new stream only after the encoder it
\* found has finished its final flush: in the task in which a startRecording
\* call gets to its getUserMedia request, the encoder it held has gone
\* inactive.
C31_OldEncoderFlushedBeforeNewStream ==
    [][\A p \in starts' :
          (p.pc = "gum" /\ mediaRecorder # None
             /\ ~\E q \in starts : q.id = p.id /\ q.pc = "gum")
          => recorders'[mediaRecorder].state = "inactive"]_vars

\* C26: a rejected write of a chunk or a screenshot leaves the session as
\* it is: status, stopping flag, stream and encoder do not change, no
\* startRecording or stopRecording call ends, and none of them waits for the
\* rejected write any longer.
C26_FailedArtifactWriteIsDropped ==
    [][\A w \in writes : \A lost \in SUBSET db.videoChunks :
          WriteRejected(w, lost) =>
              /\ sessionState' = sessionState /\ stopping' = stopping
              /\ mediaRecorder' = mediaRecorder /\ stream' = stream
              /\ recorders' = recorders /\ streams' = streams
              /\ {p.id : p \in starts'} = {p.id : p \in starts}
              /\ {p.id : p \in stops'} = {p.id : p \in stops}
              /\ \A p \in starts' \cup stops' : w.id \notin p.awaiting]_vars

\* A chunk write of a recording session was rejected and its record lost;
\* the session has since stored a later chunk, ended and been exported
C26_Witness ==
    /\ faultLog.rejected > 0 /\ faultLog.status = "recording"
    /\ Cardinality({c \in db.videoChunks : c.sessionId = faultLog.sessionId})
          > faultLog.chunks
    /\ sessionState.status = "ended" /\ sessionState.sessionId = faultLog.sessionId
    /\ \E r \in db.sessions : r.sessionId = faultLog.sessionId /\ r.status = "ended"
    /\ \E k \in DOMAIN exported :
          exported[k].sessionId = faultLog.sessionId /\ exported[k].outcome = "downloaded"

\* C28: when the eviction run after the saved session record of a start
\* is rejected, the record stays and the start goes on to create and start
\* the encoder.
C28_EvictionFailureKeepsStart ==
    [][\A p \in starts :
          (p.pc = "saveSession" /\ StartEvictionFailed(p))
          => (db' = db /\ \E q \in starts' : q.id = p.id)]_vars

C37_RecordingIffCaptureHeld ==
    (starts = {} /\ stops = {})
    => (sessionState.status = "recording"
          <=> (/\ stream # None /\ streams[stream].live
               /\ mediaRecorder # None
               /\ recorders[mediaRecorder].state = "recording"))

\* C38: when a stopRecording run has finished, however it ended, the
\* stopping flag is false.
C38_StoppingClearedWhenStopEnds ==
    [][\A p \in stops : (~\E q \in stops' : q.id = p.id) => ~stopping']_vars

\* C40: the screenshot a capture saves carries the session id of the
\* session in which its action was accepted.
C40_ScreenshotCarriesActionSession ==
    [][\A w \in writes :
          (w.kind \in {"before", "after"} /\ WriteSettled(w))
          => \A s \in db'.screenshots \ db.screenshots :
                s.rec.sessionId = w.issuedFor]_vars

\* ------------------------------------------------------------------------
\* Object stores: properties
\* ------------------------------------------------------------------------

\* C13: when an enforceLimits run returns and no record was put while it
\* ran, every store holds at most its maximum and every record deleted so
\* far is at most as recent as every record that is left.
C13_LimitsHoldAfterCleanRun ==
    [][\A r \in runs :
          (r.clean /\ \A q \in runs' : q.id # r.id)
          => \A s \in StoreNames :
                /\ Cardinality(stores'[s]) <= limits[s]
                /\ \A d \in deleted'[s], x \in stores'[s] :
                      d.createdAt <= x.createdAt]_vars

\* An undisturbed enforceLimits run has returned after deleting records, and
\* a store it trimmed is at its maximum
C13_Witness ==
    /\ runLog.clean /\ runLog.removed > 0
    /\ \E s \in StoreNames : deleted[s] # {} /\ Cardinality(stores[s]) = limits[s]

\* C14: records are deleted only for the excess over the maximum: a store
\* from which records have been deleted never holds fewer than its maximum,
\* also when enforceLimits runs overlap.
C14_NeverDeletesBelowMax ==
    \A s \in StoreNames : deleted[s] # {} => Cardinality(stores[s]) >= limits[s]

\* C34: eviction spares nobody.  Whatever the trimOldest transaction
\* deletes is the excess counted for the store, taken from the oldest
\* records by createdAt whichever session wrote them; what it deletes of
\* the active session is no longer among the records loadSessionBundle
\* reads for that session.
C34_EvictionSparesNoSession ==
    [][\A r \in runs : \A s \in StoreNames : \A D \in SUBSET stores[s] :
          TrimDeleted(r, s, D)
          => /\ Cardinality(D) = IF r.trim[s].toRemove < Cardinality(stores[s])
                                 THEN r.trim[s].toRemove
                                 ELSE Cardinality(stores[s])
             /\ \A d \in D, x \in stores[s] \ D : d.createdAt <= x.createdAt
             /\ getBySession(stores'[s]) \cap D = {}]_vars

\* The active session alone has written to a store, more than its maximum,
\* and an eviction run has deleted records of that session: they are not in
\* what the archive of the session would be built from
C34_Witness ==
    \E s \in StoreNames :
       /\ \A x \in stores[s] \cup deleted[s] : x.key > activeFrom
       /\ Cardinality(stores[s] \cup deleted[s]) > limits[s]
       /\ deleted[s] # {}
       /\ getBySession(stores[s]) = stores[s] \ deleted[s]
       /\ activeFrom > 0

\* ------------------------------------------------------------------------
\* Session archive: properties
\* ------------------------------------------------------------------------

\* C17: in every archive built, the manifest's counts.screenshots is the
\* number of files under screenshots/ and counts.videoChunks the number of
\* files under video/, also when a record's payload is missing.
C17_CountsEqualFiles ==
    archive.built = "zip" =>
        /\ archive.counts.screenshots =
              Cardinality({f \in archive.files : f.dir = "screenshots"})
        /\ archive.counts.videoChunks =
              Cardinality({f \in archive.files : f.dir = "video"})

\* ------------------------------------------------------------------------
\* Forwarding coordinator: properties
\* ------------------------------------------------------------------------

\* C20: a status request that reaches no Recorder Host, because its context
\* has been destroyed, is answered with idle or unknown, never with the
\* status the host had.
C20_LostHostAnsweredIdle ==
    [][\A q \in queries :
          (FwdRelayed(q) /\ q.lost) => answers'.status \in {"idle", "unknown"}]_vars

\* The host was destroyed while recording, a status request sent afterwards
\* has been answered, and the host is still gone
C20_Witness ==
    /\ ~fwdHost.alive /\ fwdHost.status = "recording"
    /\ answers.lost /\ ~answers.sentToHost
    /\ answers.status = "idle"

\* ------------------------------------------------------------------------
\* Stream requests: properties
\* ------------------------------------------------------------------------

\* C25: with two stream requests outstanding, the error response to one of
\* them does not change the recording that the response to the other one
\* started.
C25_ResponsesDoNotCross ==
    [][\A m \in streamResponses :
          (HostStreamResponse(m) /\ m.error # ""
             /\ srHost.status = "recording" /\ srHost.by # m.requestId)
          => srHost' = srHost]_vars

====
